---- MODULE Spec2Model ----
(***************************************************************************)
(* A model of app.py: the model-dispatch gateway.  Text is modelled by     *)
(* TLA+ strings, Python lists by sequences, Python dicts by sequences of   *)
(* key/value records (insertion ordered) or by functions (JSON bodies).    *)
(*                                                                         *)
(* Spec        the program: module-level start-up followed by request      *)
(*             threads serving GET / and POST /chat concurrently.          *)
(* AdapterSpec the adapter functions called directly, one call at a time,  *)
(*             after the module has been imported.                         *)
(***************************************************************************)
EXTENDS Integers, Sequences, FiniteSets, TLC

VARIABLES
    main,                   \* position of the module-level code
    TRANSFORMERS_AVAILABLE, \* app.py:24-28
    dialoGPT_pipeline,      \* app.py:33-37, the shared pipeline handle
    pipelineInits,          \* number of times pipeline(...) was constructed
    MODEL_FUNCTIONS,        \* app.py:120-133, the dispatch table
    AVAILABLE_MODELS,       \* app.py:135
    thread                  \* per request thread: the call it is serving

vars == <<main, TRANSFORMERS_AVAILABLE, dialoGPT_pipeline, pipelineInits,
          MODEL_FUNCTIONS, AVAILABLE_MODELS, thread>>

-----------------------------------------------------------------------------
(* Bounds and input domains *)

MaxHistory == 2     \* turns in a conversation posted to /chat
MaxTurns == 2       \* turns in a conversation given to an adapter directly

Threads == {"t1", "t2"}
DirectCaller == "t1"

Roles == {"user", "assistant"}

Turns(contents) == [role : Roles, content : contents]

RECURSIVE SeqsUpTo(_, _)
SeqsUpTo(S, n) ==
    IF n = 0 THEN {<<>>}
    ELSE LET shorter == SeqsUpTo(S, n - 1)
         IN  shorter \cup {Append(c, x) : c \in {d \in shorter : Len(d) = n - 1}, x \in S}

RequestConversations == SeqsUpTo(Turns({"hi"}), MaxHistory)
RequestPrompts == {"hi", "bye"}
RequestModels ==
    {"OpenAI GPT-3.5-turbo", "DialoGPT", "Dummy",
     "LLama3.2 (Ollama)", "Deepseekr1 7b (Ollama)", "gpt-5"}
RequestKeys == {"conversation", "prompt", "model"}

DirectConversations == SeqsUpTo(Turns({"hi", "hello", ""}), MaxTurns)
DirectPrompts == {"bye", "hi", ""}

-----------------------------------------------------------------------------
(* Python built-ins used by the adapters *)

Whitespace == {" ", "\t", "\n", "\r", "\f"}

RECURSIVE lstrip(_)
lstrip(s) ==
    IF Len(s) > 0 /\ SubSeq(s, 1, 1) \in Whitespace
    THEN lstrip(SubSeq(s, 2, Len(s)))
    ELSE s

RECURSIVE rstrip(_)
rstrip(s) ==
    IF Len(s) > 0 /\ SubSeq(s, Len(s), Len(s)) \in Whitespace
    THEN rstrip(SubSeq(s, 1, Len(s) - 1))
    ELSE s

\* a strip that removes nothing
strip_none(s) == s

strip(s) == rstrip(lstrip(s))

RECURSIVE join(_, _)
join(sep, lines) ==
    IF Len(lines) = 0 THEN ""
    ELSE IF Len(lines) = 1 THEN lines[1]
    ELSE lines[1] \o sep \o join(sep, Tail(lines))

dict_get(d, key, default) == IF key \in DOMAIN d THEN d[key] ELSE default

keys(table) == [i \in 1..Len(table) |-> table[i].key]

table_get(table, key, default) ==
    IF \E i \in 1..Len(table) : table[i].key = key
    THEN table[CHOOSE i \in 1..Len(table) : table[i].key = key].func
    ELSE default

\* the table after MODEL_FUNCTIONS.setdefault(key, default), which registers a missing key
table_after_setdefault(table, key, default) ==
    IF \E i \in 1..Len(table) : table[i].key = key
    THEN table
    ELSE Append(table, [key |-> key, func |-> default])

\* the table after MODEL_FUNCTIONS.get(key, default), which only reads
table_after_get(table, key, default) == table

-----------------------------------------------------------------------------
(* What the backends can answer.  One record shape for all of them. *)

Outcome(kind, code, data, stdout, stderr, err) ==
    [kind |-> kind, code |-> code, data |-> data,
     stdout |-> stdout, stderr |-> stderr, err |-> err]

NoOutcome == Outcome("none", 0, <<>>, "", "", "")

\* openai.ChatCompletion.create: a response with its choices' contents, a response
\* without the key 'choices', or an error
OpenAIOutcomes ==
    {Outcome("response", 0, <<"hello">>, "", "", ""),
     Outcome("response", 0, <<"hello", "again">>, "", "", ""),
     Outcome("response", 0, <<>>, "", "", ""),
     Outcome("no_choices", 0, <<>>, "", "", ""),
     Outcome("raise", 0, <<>>, "", "", "Connection error.")}

\* dialoGPT_pipeline(conv): the conversation with its generated_responses, or an error
PipelineOutcomes ==
    {Outcome("result", 0, <<>>, "", "", ""),
     Outcome("result", 0, <<"hello">>, "", "", ""),
     Outcome("result", 0, <<"hello", "again">>, "", "", ""),
     Outcome("raise", 0, <<>>, "", "", "CUDA out of memory")}

\* subprocess.run(..., capture_output=True, text=True, check=True)
SubprocessOutcomes ==
    {Outcome("exit", 0, <<>>, "  result text \n", "", ""),
     Outcome("exit", 0, <<>>, "ok", "warning", ""),
     Outcome("exit", 0, <<>>, " \n", "", ""),
     Outcome("exit", 1, <<>>, "", "boom", ""),
     Outcome("exit", 2, <<>>, "partial", " boom\n", ""),
     Outcome("spawn_error", 0, <<>>, "", "",
             "[Errno 2] No such file or directory: 'ollama'")}

-----------------------------------------------------------------------------
(* The adapters.  Each yields what the call leaves behind: whether it       *)
(* returned or raised, the reply, the caller's conversation list after the *)
(* call, and the backend invocations it made.                              *)

Result(kind, reply, exc, conversation, effects) ==
    [kind |-> kind, reply |-> reply, exc |-> exc,
     conversation |-> conversation, effects |-> effects]

Effect(backend, model, messages, text) ==
    [backend |-> backend, model |-> model, messages |-> messages, text |-> text]

\* the outcome of a try body: a value, or an exception with its type and str()
Value(v) == [raised |-> FALSE, value |-> v, type |-> "", str |-> ""]
Raised(type, str) == [raised |-> TRUE, value |-> "", type |-> type, str |-> str]

\* conversation += [...] extends the caller's list
list_concat_in_place(conversation, more) ==
    [operand |-> conversation \o more, result |-> conversation \o more]

\* conversation + [...] builds a new list and leaves its operands alone
list_concat(conversation, more) ==
    [operand |-> conversation, result |-> conversation \o more]

format_turn(msg) == msg.role \o ": " \o msg.content

format_turns(conversation) ==
    [i \in 1..Len(conversation) |-> format_turn(conversation[i])]

\* response['choices'][0]['message']['content'] inside the try block
openai_try(outcome) ==
    IF outcome.kind = "raise" THEN Raised("OpenAIError", outcome.err)
    ELSE IF outcome.kind = "no_choices" THEN Raised("KeyError", "'choices'")
    ELSE IF Len(outcome.data) = 0 THEN Raised("IndexError", "list index out of range")
    ELSE Value(outcome.data[1])

\* except openai.error.OpenAIError as e
openai_except_narrow(type) == type = "OpenAIError"

\* except Exception as e
openai_except(type) == TRUE

chat_with_openai(conversation, prompt, outcome) ==
    LET cat == list_concat(conversation, <<[role |-> "user", content |-> prompt]>>)
        messages == cat.result
        effects == <<Effect("openai.ChatCompletion.create", "gpt-3.5-turbo", messages, "")>>
        try == openai_try(outcome)
    IN  IF ~try.raised THEN Result("return", try.value, "", cat.operand, effects)
        ELSE IF openai_except(try.type)
        THEN Result("return", "Error calling OpenAI API: " \o try.str, "",
                    cat.operand, effects)
        ELSE Result("raise", "", try.type, cat.operand, effects)

\* the history joined newest turn first
combined_input_reversed(conversation, prompt) ==
    LET combined_history ==
            join("\n", [i \in 1..Len(conversation) |->
                          format_turn(conversation[Len(conversation) + 1 - i])])
    IN  IF combined_history # "" THEN combined_history \o "\nuser: " \o prompt ELSE prompt

\* combined_history and combined_input of chat_with_dialoGPT
combined_input(conversation, prompt) ==
    LET combined_history == join("\n", format_turns(conversation))
    IN  IF combined_history # "" THEN combined_history \o "\nuser: " \o prompt ELSE prompt

\* result.generated_responses[0] in place of [-1]
last_response_first(generated_responses) ==
    IF Len(generated_responses) > 0 THEN generated_responses[1] ELSE "No response."

\* result.generated_responses[-1] if result.generated_responses else "No response."
last_response(generated_responses) ==
    IF Len(generated_responses) > 0
    THEN generated_responses[Len(generated_responses)]
    ELSE "No response."

chat_with_dialoGPT(pipeline, conversation, prompt, outcome) ==
    IF pipeline = "None"
    THEN Result("return", "DialoGPT model not available. Please install transformers.",
                "", conversation, <<>>)
    ELSE LET effects == <<Effect("dialoGPT_pipeline", "microsoft/DialoGPT-medium", <<>>,
                                 combined_input(conversation, prompt))>>
         IN  IF outcome.kind = "raise"
             THEN Result("raise", "", "Exception", conversation, effects)
             ELSE Result("return", last_response(outcome.data), "", conversation, effects)

\* a stub that echoes the flattened history too
chat_with_dummy_history(conversation, prompt) ==
    Result("return", "Dummy response to: " \o combined_input(conversation, prompt), "",
           conversation, <<>>)

chat_with_dummy(conversation, prompt) ==
    Result("return", "Dummy response to: " \o prompt, "", conversation, <<>>)

\* subprocess.run with check=True inside the try block, then result.stdout.strip()
subprocess_try(outcome) ==
    IF outcome.kind = "spawn_error" THEN Raised("FileNotFoundError", outcome.err)
    ELSE IF outcome.code # 0 THEN Raised("CalledProcessError", outcome.stderr)
    ELSE Value(strip(outcome.stdout))

\* except subprocess.CalledProcessError as e
subprocess_except(type) == type = "CalledProcessError"

full_prompt_llama3_2(conversation, prompt) ==
    LET combined_history == join("\n", format_turns(conversation))
    IN  IF combined_history # "" THEN combined_history \o "\nuser: " \o prompt ELSE prompt

chat_with_llama3_2(conversation, prompt, outcome) ==
    LET effects == <<Effect("subprocess.run", "llama3.2", <<>>,
                            full_prompt_llama3_2(conversation, prompt))>>
        try == subprocess_try(outcome)
    IN  IF ~try.raised THEN Result("return", try.value, "", conversation, effects)
        ELSE IF subprocess_except(try.type)
        THEN Result("return", "Error running llama3.2: " \o try.str, "",
                    conversation, effects)
        ELSE Result("raise", "", try.type, conversation, effects)

full_prompt_deepseekr1_7b(conversation, prompt) ==
    LET combined_history == join("\n", format_turns(conversation))
    IN  IF combined_history # "" THEN combined_history \o "\nuser: " \o prompt ELSE prompt

chat_with_deepseekr1_7b(conversation, prompt, outcome) ==
    LET effects == <<Effect("subprocess.run", "deepseekr1-7b", <<>>,
                            full_prompt_deepseekr1_7b(conversation, prompt))>>
        try == subprocess_try(outcome)
    IN  IF ~try.raised THEN Result("return", try.value, "", conversation, effects)
        ELSE IF subprocess_except(try.type)
        THEN Result("return", "Error running deepseekr1 7b: " \o try.str, "",
                    conversation, effects)
        ELSE Result("raise", "", try.type, conversation, effects)

\* model_func(conversation_history, prompt): a call through the function value
invoke(func, pipeline, conversation, prompt, outcome) ==
    CASE func = "chat_with_openai" -> chat_with_openai(conversation, prompt, outcome)
      [] func = "chat_with_dialoGPT" ->
            chat_with_dialoGPT(pipeline, conversation, prompt, outcome)
      [] func = "chat_with_llama3_2" -> chat_with_llama3_2(conversation, prompt, outcome)
      [] func = "chat_with_deepseekr1_7b" ->
            chat_with_deepseekr1_7b(conversation, prompt, outcome)
      [] func = "chat_with_dummy" -> chat_with_dummy(conversation, prompt)

\* the answers the backend of an adapter can give to one call
OutcomesFor(func, pipeline) ==
    CASE func = "chat_with_openai" -> OpenAIOutcomes
      [] func = "chat_with_dialoGPT" ->
            IF pipeline = "None" THEN {NoOutcome} ELSE PipelineOutcomes
      [] func \in {"chat_with_llama3_2", "chat_with_deepseekr1_7b"} -> SubprocessOutcomes
      [] func = "chat_with_dummy" -> {NoOutcome}

-----------------------------------------------------------------------------
(* Module-level code: the state it builds before the server runs *)

MODEL_FUNCTIONS_first ==
    <<[key |-> "OpenAI GPT-3.5-turbo", func |-> "chat_with_openai"],
      [key |-> "DialoGPT", func |-> "chat_with_dialoGPT"],
      [key |-> "LLama3.2 (Ollama)", func |-> "chat_with_llama3_2"],
      [key |-> "Deepseekr1 7b (Ollama)", func |-> "chat_with_deepseekr1_7b"],
      [key |-> "Dummy", func |-> "chat_with_dummy"]>>

\* the table had the second definition repeated the first
MODEL_FUNCTIONS_unshadowed == MODEL_FUNCTIONS_first

MODEL_FUNCTIONS_second ==
    <<[key |-> "OpenAI GPT-3.5-turbo", func |-> "chat_with_openai"],
      [key |-> "DialoGPT", func |-> "chat_with_dialoGPT"],
      [key |-> "Dummy", func |-> "chat_with_dummy"]>>

IdleThread ==
    [pc |-> "idle", model_name |-> "", conversation_history |-> <<>>, prompt |-> "",
     model_func |-> "", outcome |-> NoOutcome,
     result |-> Result("none", "", "", <<>>, <<>>), options |-> <<>>]

Init ==
    /\ main = "init_pipeline"
    /\ TRANSFORMERS_AVAILABLE \in BOOLEAN
    /\ dialoGPT_pipeline = "unbound"
    /\ pipelineInits = 0
    /\ MODEL_FUNCTIONS = <<>>
    /\ AVAILABLE_MODELS = <<>>
    /\ thread = [t \in Threads |-> IdleThread]

\* pipeline("conversational", model=...) succeeds, or the dependency is absent
init_pipeline ==
    /\ main = "init_pipeline"
    /\ IF TRANSFORMERS_AVAILABLE
       THEN dialoGPT_pipeline' = "pipeline" /\ pipelineInits' = pipelineInits + 1
       ELSE dialoGPT_pipeline' = "None" /\ pipelineInits' = pipelineInits
    /\ main' = "table_first"
    /\ UNCHANGED <<TRANSFORMERS_AVAILABLE, MODEL_FUNCTIONS, AVAILABLE_MODELS, thread>>

\* pipeline(...) raises (no weights, no network): the import fails, nothing is served
init_pipeline_fails ==
    /\ main = "init_pipeline"
    /\ TRANSFORMERS_AVAILABLE
    /\ pipelineInits' = pipelineInits + 1
    /\ main' = "crashed"
    /\ UNCHANGED <<TRANSFORMERS_AVAILABLE, dialoGPT_pipeline, MODEL_FUNCTIONS,
                   AVAILABLE_MODELS, thread>>

define_table_first ==
    /\ main = "table_first"
    /\ MODEL_FUNCTIONS' = MODEL_FUNCTIONS_first
    /\ main' = "table_second"
    /\ UNCHANGED <<TRANSFORMERS_AVAILABLE, dialoGPT_pipeline, pipelineInits,
                   AVAILABLE_MODELS, thread>>

define_table_second ==
    /\ main = "table_second"
    /\ MODEL_FUNCTIONS' = MODEL_FUNCTIONS_second
    /\ main' = "available_models"
    /\ UNCHANGED <<TRANSFORMERS_AVAILABLE, dialoGPT_pipeline, pipelineInits,
                   AVAILABLE_MODELS, thread>>

\* AVAILABLE_MODELS = list(MODEL_FUNCTIONS.keys()), then app.run
define_available_models ==
    /\ main = "available_models"
    /\ AVAILABLE_MODELS' = keys(MODEL_FUNCTIONS)
    /\ main' = "serving"
    /\ UNCHANGED <<TRANSFORMERS_AVAILABLE, dialoGPT_pipeline, pipelineInits,
                   MODEL_FUNCTIONS, thread>>

-----------------------------------------------------------------------------
(* Request threads *)

\* the JSON bodies a client can post: any of the three keys may be missing
RequestBodies ==
    {[k \in K |-> full[k]] :
        K \in SUBSET RequestKeys,
        full \in [conversation : RequestConversations, prompt : RequestPrompts,
                  model : RequestModels]}

\* GET /
index(t) ==
    /\ main = "serving"
    /\ thread[t].pc = "idle"
    /\ thread' = [thread EXCEPT ![t] =
                    [IdleThread EXCEPT !.pc = "rendered", !.options = AVAILABLE_MODELS]]
    /\ UNCHANGED <<main, TRANSFORMERS_AVAILABLE, dialoGPT_pipeline, pipelineInits,
                   MODEL_FUNCTIONS, AVAILABLE_MODELS>>

\* POST /chat, up to the selection of the handler
chat_select(t) ==
    /\ main = "serving"
    /\ thread[t].pc = "idle"
    /\ \E data \in RequestBodies :
         LET conversation_history == dict_get(data, "conversation", <<>>)
             prompt == dict_get(data, "prompt", "")
             model_name == dict_get(data, "model", "Dummy")
             model_func == table_get(MODEL_FUNCTIONS, model_name, "chat_with_dummy")
         IN  /\ thread' = [thread EXCEPT ![t] =
                             [IdleThread EXCEPT !.pc = "selected",
                                                !.model_name = model_name,
                                                !.conversation_history = conversation_history,
                                                !.prompt = prompt,
                                                !.model_func = model_func]]
             /\ MODEL_FUNCTIONS' =
                    table_after_get(MODEL_FUNCTIONS, model_name, "chat_with_dummy")
    /\ UNCHANGED <<main, TRANSFORMERS_AVAILABLE, dialoGPT_pipeline, pipelineInits,
                   AVAILABLE_MODELS>>

\* reply = model_func(conversation_history, prompt)
chat_invoke(t) ==
    /\ main = "serving"
    /\ thread[t].pc = "selected"
    /\ \E outcome \in OutcomesFor(thread[t].model_func, dialoGPT_pipeline) :
         LET call == thread[t]
             result == invoke(call.model_func, dialoGPT_pipeline,
                              call.conversation_history, call.prompt, outcome)
         IN  thread' = [thread EXCEPT ![t] =
                          [call EXCEPT !.pc = "done", !.outcome = outcome,
                                       !.result = result]]
    /\ UNCHANGED <<main, TRANSFORMERS_AVAILABLE, dialoGPT_pipeline, pipelineInits,
                   MODEL_FUNCTIONS, AVAILABLE_MODELS>>

\* the response leaves (jsonify of the reply, the page, or the server's error page)
respond(t) ==
    /\ main = "serving"
    /\ thread[t].pc \in {"done", "rendered"}
    /\ thread' = [thread EXCEPT ![t] = IdleThread]
    /\ UNCHANGED <<main, TRANSFORMERS_AVAILABLE, dialoGPT_pipeline, pipelineInits,
                   MODEL_FUNCTIONS, AVAILABLE_MODELS>>

Next ==
    \/ init_pipeline
    \/ init_pipeline_fails
    \/ define_table_first
    \/ define_table_second
    \/ define_available_models
    \/ \E t \in Threads : index(t)
    \/ \E t \in Threads : chat_select(t)
    \/ \E t \in Threads : chat_invoke(t)
    \/ \E t \in Threads : respond(t)

Spec == Init /\ [][Next]_vars

-----------------------------------------------------------------------------
(* The adapters called directly, on the imported module *)

AdapterInit ==
    /\ main = "imported"
    /\ TRANSFORMERS_AVAILABLE \in BOOLEAN
    /\ dialoGPT_pipeline = IF TRANSFORMERS_AVAILABLE THEN "pipeline" ELSE "None"
    /\ pipelineInits = IF TRANSFORMERS_AVAILABLE THEN 1 ELSE 0
    /\ MODEL_FUNCTIONS = MODEL_FUNCTIONS_second
    /\ AVAILABLE_MODELS = keys(MODEL_FUNCTIONS_second)
    /\ thread = [t \in Threads |-> IdleThread]

\* the caller's record of one call func(conversation, prompt)
called(func, pipeline, conversation, prompt, outcome) ==
    [IdleThread EXCEPT
        !.pc = "done",
        !.conversation_history = conversation,
        !.prompt = prompt,
        !.model_func = func,
        !.outcome = outcome,
        !.result = invoke(func, pipeline, conversation, prompt, outcome)]

call_chat_with_openai ==
    /\ main = "imported"
    /\ thread[DirectCaller].pc = "idle"
    /\ \E conversation \in DirectConversations, prompt \in DirectPrompts :
         \E outcome \in OutcomesFor("chat_with_openai", dialoGPT_pipeline) :
            thread' = [thread EXCEPT ![DirectCaller] =
                         called("chat_with_openai", dialoGPT_pipeline, conversation, prompt, outcome)]
    /\ UNCHANGED <<main, TRANSFORMERS_AVAILABLE, dialoGPT_pipeline, pipelineInits,
                   MODEL_FUNCTIONS, AVAILABLE_MODELS>>

call_chat_with_dialoGPT ==
    /\ main = "imported"
    /\ thread[DirectCaller].pc = "idle"
    /\ \E conversation \in DirectConversations, prompt \in DirectPrompts :
         \E outcome \in OutcomesFor("chat_with_dialoGPT", dialoGPT_pipeline) :
            thread' = [thread EXCEPT ![DirectCaller] =
                         called("chat_with_dialoGPT", dialoGPT_pipeline, conversation, prompt, outcome)]
    /\ UNCHANGED <<main, TRANSFORMERS_AVAILABLE, dialoGPT_pipeline, pipelineInits,
                   MODEL_FUNCTIONS, AVAILABLE_MODELS>>

call_chat_with_dummy ==
    /\ main = "imported"
    /\ thread[DirectCaller].pc = "idle"
    /\ \E conversation \in DirectConversations, prompt \in DirectPrompts :
         \E outcome \in OutcomesFor("chat_with_dummy", dialoGPT_pipeline) :
            thread' = [thread EXCEPT ![DirectCaller] =
                         called("chat_with_dummy", dialoGPT_pipeline, conversation, prompt, outcome)]
    /\ UNCHANGED <<main, TRANSFORMERS_AVAILABLE, dialoGPT_pipeline, pipelineInits,
                   MODEL_FUNCTIONS, AVAILABLE_MODELS>>

call_chat_with_llama3_2 ==
    /\ main = "imported"
    /\ thread[DirectCaller].pc = "idle"
    /\ \E conversation \in DirectConversations, prompt \in DirectPrompts :
         \E outcome \in OutcomesFor("chat_with_llama3_2", dialoGPT_pipeline) :
            thread' = [thread EXCEPT ![DirectCaller] =
                         called("chat_with_llama3_2", dialoGPT_pipeline, conversation, prompt, outcome)]
    /\ UNCHANGED <<main, TRANSFORMERS_AVAILABLE, dialoGPT_pipeline, pipelineInits,
                   MODEL_FUNCTIONS, AVAILABLE_MODELS>>

call_chat_with_deepseekr1_7b ==
    /\ main = "imported"
    /\ thread[DirectCaller].pc = "idle"
    /\ \E conversation \in DirectConversations, prompt \in DirectPrompts :
         \E outcome \in OutcomesFor("chat_with_deepseekr1_7b", dialoGPT_pipeline) :
            thread' = [thread EXCEPT ![DirectCaller] =
                         called("chat_with_deepseekr1_7b", dialoGPT_pipeline, conversation, prompt, outcome)]
    /\ UNCHANGED <<main, TRANSFORMERS_AVAILABLE, dialoGPT_pipeline, pipelineInits,
                   MODEL_FUNCTIONS, AVAILABLE_MODELS>>

\* the caller drops the result and is ready for the next call
call_returns ==
    /\ main = "imported"
    /\ thread[DirectCaller].pc = "done"
    /\ thread' = [thread EXCEPT ![DirectCaller] = IdleThread]
    /\ UNCHANGED <<main, TRANSFORMERS_AVAILABLE, dialoGPT_pipeline, pipelineInits,
                   MODEL_FUNCTIONS, AVAILABLE_MODELS>>

AdapterNext ==
    \/ call_chat_with_openai
    \/ call_chat_with_dialoGPT
    \/ call_chat_with_dummy
    \/ call_chat_with_llama3_2
    \/ call_chat_with_deepseekr1_7b
    \/ call_returns

AdapterSpec == AdapterInit /\ [][AdapterNext]_vars

-----------------------------------------------------------------------------
(* Properties *)

Done(t) == thread[t].pc = "done"

ExternalAdapters == {"chat_with_llama3_2", "chat_with_deepseekr1_7b"}

FlatteningAdapters == {"chat_with_dialoGPT"} \cup ExternalAdapters

ModelNameOf(func) ==
    IF func = "chat_with_llama3_2" THEN "llama3.2" ELSE "deepseekr1 7b"

DummyReply(prompt) == "Dummy response to: " \o prompt

\* C1: every dispatch call, whatever its identifier, conversation, prompt and
\* backend outcome, returns a reply string and never ends in a propagated exception.
C1_DispatchTotal ==
    \A t \in Threads : Done(t) => thread[t].result.kind = "return"

\* C2: dispatching on "Dummy" or on an identifier that is no key of the dispatch
\* table returns exactly "Dummy response to: " followed by the prompt, whatever
\* the conversation, and invokes no backend.
C2_DummyDispatch ==
    /\ \A t \in Threads :
         (/\ Done(t)
          /\ \/ thread[t].model_name = "Dummy"
             \/ \A i \in 1..Len(MODEL_FUNCTIONS) :
                   MODEL_FUNCTIONS[i].key # thread[t].model_name)
         => /\ thread[t].result.kind = "return"
            /\ thread[t].result.reply = DummyReply(thread[t].prompt)
            /\ thread[t].result.effects = <<>>
    /\ \A t, u \in Threads :
         (/\ Done(t) /\ Done(u)
          /\ thread[t].model_name = "Dummy" /\ thread[u].model_name = "Dummy"
          /\ thread[t].prompt = thread[u].prompt)
         => thread[t].result.reply = thread[u].result.reply

C2_Witness ==
    \E t \in Threads :
        /\ Done(t)
        /\ thread[t].model_name = "gpt-5"
        /\ Len(thread[t].conversation_history) > 0
        /\ thread[t].result.reply = "Dummy response to: bye"

\* C3: when the executable of an external-process adapter cannot be spawned, the
\* adapter returns "Error running <model-name>: <error detail>" and does not raise.
C3_SpawnFailureReported ==
    \A t \in Threads :
        (/\ Done(t)
         /\ thread[t].model_func \in ExternalAdapters
         /\ thread[t].outcome.kind = "spawn_error")
        => /\ thread[t].result.kind = "return"
           /\ thread[t].result.reply =
                 "Error running " \o ModelNameOf(thread[t].model_func) \o ": "
                    \o thread[t].outcome.err

\* r is s without its leading and trailing whitespace
IsStripped(s, r) ==
    \E i \in 1..(Len(s) + 1), j \in 0..Len(s) :
        /\ r = SubSeq(s, i, j)
        /\ \A k \in 1..(i - 1) : SubSeq(s, k, k) \in Whitespace
        /\ \A k \in (j + 1)..Len(s) : SubSeq(s, k, k) \in Whitespace
        /\ \/ r = ""
           \/ /\ SubSeq(r, 1, 1) \notin Whitespace
              /\ SubSeq(r, Len(r), Len(r)) \notin Whitespace

\* C4: an external-process adapter replies with the process's standard output
\* without its leading and trailing whitespace when the process exits with code 0,
\* and with "Error running <model-name>: " followed by its standard error when it
\* exits non-zero ("  result text \n" gives "result text", "boom" gives
\* "Error running llama3.2: boom").
C4_ExternalProcessReply ==
    \A t \in Threads :
        (/\ Done(t)
         /\ thread[t].model_func \in ExternalAdapters
         /\ thread[t].outcome.kind = "exit")
        => LET o == thread[t].outcome
               r == thread[t].result
           IN  /\ r.kind = "return"
               /\ o.code = 0 => IsStripped(o.stdout, r.reply)
               /\ (o.code = 0 /\ o.stdout = "  result text \n") => r.reply = "result text"
               /\ o.code # 0 =>
                    r.reply = "Error running " \o ModelNameOf(thread[t].model_func)
                                 \o ": " \o o.stderr
               /\ (o.code # 0 /\ o.stderr = "boom"
                     /\ thread[t].model_func = "chat_with_llama3_2")
                    => r.reply = "Error running llama3.2: boom"

C4_Witness ==
    \E t \in Threads :
        /\ Done(t)
        /\ thread[t].model_func = "chat_with_llama3_2"
        /\ thread[t].outcome.code = 0
        /\ thread[t].outcome.stdout = "  result text \n"
        /\ thread[t].result.reply = "result text"

\* C5: the remote-API adapter never raises; when the remote call raises, or its
\* response has no first completion, the reply is "Error calling OpenAI API: "
\* followed by the stringified error; otherwise it is the first completion's
\* content; the remote call is made exactly once per adapter call.
C5_RemoteAdapterReply ==
    \A t \in Threads :
        (Done(t) /\ thread[t].model_func = "chat_with_openai")
        => LET o == thread[t].outcome
               r == thread[t].result
           IN  /\ r.kind = "return"
               /\ o.kind = "raise" => r.reply = "Error calling OpenAI API: " \o o.err
               /\ (o.kind = "response" /\ Len(o.data) = 0) =>
                    r.reply = "Error calling OpenAI API: list index out of range"
               /\ o.kind = "no_choices" => r.reply = "Error calling OpenAI API: 'choices'"
               /\ (o.kind = "response" /\ Len(o.data) > 0) => r.reply = o.data[1]
               /\ Len(r.effects) = 1
               /\ r.effects[1].backend = "openai.ChatCompletion.create"

C5_Witness ==
    \E t \in Threads :
        /\ Done(t)
        /\ thread[t].model_func = "chat_with_openai"
        /\ thread[t].outcome.kind = "response"
        /\ Len(thread[t].outcome.data) = 0
        /\ thread[t].result.kind = "return"

\* the n lines "<role>: <content>" from turn i on, each ended by a newline, then
\* the line "user: <prompt>"
RECURSIVE LinesFrom(_, _, _)
LinesFrom(conversation, i, prompt) ==
    IF i > Len(conversation) THEN "user: " \o prompt
    ELSE conversation[i].role \o ": " \o conversation[i].content \o "\n"
            \o LinesFrom(conversation, i + 1, prompt)

Flattened(conversation, prompt) ==
    IF Len(conversation) = 0 THEN prompt ELSE LinesFrom(conversation, 1, prompt)

\* C6: the text the in-process-pipeline adapter and both external-process
\* adapters hand to their backend is the prompt alone for an empty conversation,
\* and otherwise the lines "<role>: <content>" in turn order followed by
\* "user: <prompt>", joined by newlines; the three adapters compute the same text.
C6_HistoryFlattening ==
    \A t \in Threads :
        (/\ Done(t)
         /\ thread[t].model_func \in FlatteningAdapters
         /\ Len(thread[t].result.effects) > 0)
        => LET c == thread[t].conversation_history
               p == thread[t].prompt
               sent == thread[t].result.effects[1].text
           IN  /\ sent = Flattened(c, p)
               /\ (Len(c) = 0 /\ p = "hi") => sent = "hi"
               /\ (/\ c = <<[role |-> "user", content |-> "hi"],
                            [role |-> "assistant", content |-> "hello"]>>
                   /\ p = "bye")
                    => sent = "user: hi\nassistant: hello\nuser: bye"
               /\ combined_input(c, p) = full_prompt_llama3_2(c, p)
               /\ full_prompt_llama3_2(c, p) = full_prompt_deepseekr1_7b(c, p)

C6_Witness ==
    \E t \in Threads :
        /\ Done(t)
        /\ thread[t].model_func = "chat_with_dialoGPT"
        /\ thread[t].conversation_history =
              <<[role |-> "user", content |-> "hi"],
                [role |-> "assistant", content |-> "hello"]>>
        /\ thread[t].prompt = "bye"
        /\ Len(thread[t].result.effects) = 1
        /\ thread[t].result.effects[1].text = "user: hi\nassistant: hello\nuser: bye"

\* C7: with the optional dependency absent every dispatch on "DialoGPT" returns
\* the fixed unavailability string and attempts no inference; with the pipeline
\* available the reply is the last generated response, or "No response." when the
\* pipeline produced none.
C7_LocalPipelineReply ==
    \A t \in Threads :
        (Done(t) /\ thread[t].model_name = "DialoGPT")
        => LET o == thread[t].outcome
               r == thread[t].result
           IN  /\ ~TRANSFORMERS_AVAILABLE =>
                    /\ r.kind = "return"
                    /\ r.reply = "DialoGPT model not available. Please install transformers."
                    /\ r.effects = <<>>
               /\ (TRANSFORMERS_AVAILABLE /\ o.kind = "result") =>
                    /\ r.kind = "return"
                    /\ Len(r.effects) = 1
                    /\ Len(o.data) = 0 => r.reply = "No response."
                    /\ Len(o.data) > 0 => r.reply = o.data[Len(o.data)]

C7_Witness ==
    \E t \in Threads :
        /\ Done(t)
        /\ thread[t].model_name = "DialoGPT"
        /\ ~TRANSFORMERS_AVAILABLE
        /\ Len(thread[t].conversation_history) > 0
        /\ thread[t].result.reply =
              "DialoGPT model not available. Please install transformers."

\* C8: after a call to any adapter, returned or raised, the caller's conversation
\* holds the same turns in the same order as before the call.
C8_ConversationNotMutated ==
    \A t \in Threads :
        Done(t) => thread[t].result.conversation = thread[t].conversation_history

C8_Witness ==
    \E t \in Threads :
        /\ Done(t)
        /\ thread[t].model_func = "chat_with_openai"
        /\ Len(thread[t].conversation_history) = 2
        /\ Len(thread[t].result.effects[1].messages) = 3
        /\ thread[t].result.conversation = thread[t].conversation_history

EffectiveKeys == <<"OpenAI GPT-3.5-turbo", "DialoGPT", "Dummy">>

\* C9: once the program serves, the dispatch table's keys and the selectable
\* options are exactly "OpenAI GPT-3.5-turbo", "DialoGPT", "Dummy" in that order;
\* dispatching on either Ollama identifier yields the stub reply, and no dispatch
\* call ever invokes an external-process adapter or spawns a process.
C9_SecondTableShadowsFirst ==
    main = "serving" =>
        /\ keys(MODEL_FUNCTIONS) = EffectiveKeys
        /\ AVAILABLE_MODELS = EffectiveKeys
        /\ \A t \in Threads :
             /\ thread[t].pc = "rendered" => thread[t].options = EffectiveKeys
             /\ thread[t].model_func \notin ExternalAdapters
             /\ Done(t) =>
                  /\ \A i \in 1..Len(thread[t].result.effects) :
                        thread[t].result.effects[i].backend # "subprocess.run"
                  /\ thread[t].model_name
                        \in {"LLama3.2 (Ollama)", "Deepseekr1 7b (Ollama)"}
                     => thread[t].result.reply = DummyReply(thread[t].prompt)

C9_Witness ==
    \E t \in Threads :
        /\ Done(t)
        /\ thread[t].model_name = "LLama3.2 (Ollama)"
        /\ thread[t].model_func = "chat_with_dummy"
        /\ thread[t].result.reply = "Dummy response to: hi"

\* C10: once the program serves, no step of any request thread, however the
\* threads interleave, changes the dispatch table, the list of selectable options
\* or the shared pipeline handle; the pipeline is constructed at most once.
C10_SharedStateFixed ==
    /\ [][main = "serving" =>
            /\ MODEL_FUNCTIONS' = MODEL_FUNCTIONS
            /\ AVAILABLE_MODELS' = AVAILABLE_MODELS
            /\ dialoGPT_pipeline' = dialoGPT_pipeline
            /\ pipelineInits' = pipelineInits]_vars
    /\ [](pipelineInits <= 1)

C10_Witness ==
    /\ main = "serving"
    /\ pipelineInits = 1
    /\ thread["t1"].pc = "done"
    /\ thread["t1"].model_name = "gpt-5"
    /\ thread["t2"].pc = "done"
    /\ thread["t2"].model_name = "DialoGPT"
    /\ thread["t2"].result.kind = "raise"

====
